---- MODULE Spec2Model ----
(***************************************************************************)
(* The 6502 emulator core of src/main.cpp as a state machine: struct Mem   *)
(* (a 64 KiB byte array), struct CPU (registers and flags), and the        *)
(* fetch/decode/execute loop CPU::Execute driven by a 32-bit unsigned      *)
(* cycle counter.  One action per loop iteration of Execute (one per case  *)
(* of its switch), one for the loop exit, one for the call, one for Reset, *)
(* and two for the host that owns the objects (it writes memory cells and  *)
(* the public register fields before it calls Execute).                    *)
(***************************************************************************)
EXTENDS Integers, FiniteSets, Sequences, TLC

VARIABLES
    cpu,      \* struct CPU: PC, SP, A, X, Y and the seven one-bit flags
    mem,      \* Mem::Data, as the function from the non-zero cells to their bytes
    Cycles,   \* the uint32 parameter Cycles of Execute, as two 16-bit halves
    pc,       \* where the program is: "uninit", "setup", "running", "idle", "fault", "crashed"
    budget,   \* history: the argument Execute was last called with
    steps,    \* history: loop iterations of Execute since the last Reset
    last,     \* history: the operation that produced this state and the state it started from
    call,     \* history: the registers, memory and iteration count Execute was last called on
    jsrs      \* history: JSR instructions completed since the last Reset

vars == <<cpu, mem, Cycles, pc, budget, steps, last, call, jsrs>>

----------------------------------------------------------------------------
(* Bounds of the exploration. *)

\* Largest budget a modelled call of Execute is given.
MaxBudget == 3

\* Loop iterations of Execute explored after one Reset.
MaxSteps == 3

----------------------------------------------------------------------------
(* Program constants. *)

MAX_MEM == 65536

INS_LDA_IM == 169
INS_LDA_ZP == 165
INS_LDA_ZPX == 181
INS_JSR == 32

ResetPC == 65532
ResetSP == 256

----------------------------------------------------------------------------
(* Fixed-width arithmetic. *)

W8(x) == x % 256
W16(x) == x % 65536

\* A std::uint32_t as its two 16-bit halves (the value is hi * 65536 + lo).
U32(n) == [hi |-> 0, lo |-> n]

\* c - k in std::uint32_t arithmetic, for 0 <= k < 65536: wraps below zero.
U32Dec(c, k) ==
    IF c.lo >= k THEN [c EXCEPT !.lo = @ - k]
    ELSE [hi |-> W16(c.hi - 1), lo |-> c.lo + 65536 - k]

\* a - b in std::uint32_t arithmetic.
U32Sub(a, b) ==
    IF a.lo >= b.lo THEN [hi |-> W16(a.hi - b.hi), lo |-> a.lo - b.lo]
    ELSE [hi |-> W16(a.hi - b.hi - 1), lo |-> a.lo + 65536 - b.lo]

\* The test Cycles > 0 of the while loop.
U32Positive(c) == c.hi # 0 \/ c.lo # 0

----------------------------------------------------------------------------
(* struct Mem. *)

Addr == 0 .. (MAX_MEM - 1)

EmptyMem == [a \in {} |-> 0]

\* Data[Address] read, for an address inside the array.
MemRead(m, a) == IF a \in DOMAIN m THEN m[a] ELSE 0

\* Data[Address] = v, for an address inside the array.
MemWrite(m, a, v) ==
    IF v = 0 THEN [x \in DOMAIN m \ {a} |-> m[x]]
    ELSE [x \in DOMAIN m \cup {a} |-> IF x = a THEN v ELSE m[x]]

\* Initialise with the loop bound one short: the last cell keeps its byte.
InitialiseShort(m) == [x \in {a \in DOMAIN m : ~(a < MAX_MEM - 1)} |-> m[x]]

\* Mem::Initialise: Data[i] = 0 for every i < MAX_MEM.
Initialise(m) == [x \in {a \in DOMAIN m : ~(a < MAX_MEM)} |-> m[x]]

\* What the store Data[MAX_MEM], one byte past the array, can do.  Data is
\* the only member of Mem, so the byte is the first byte of whatever follows
\* the Mem object: storage the program never reads back ("stray"), storage
\* whose loss or whose guard stops the process ("crash"), or the CPU object
\* of the same frame, whose first byte is the low byte of PC ("PC").
UBOutcomes == {"stray", "crash", "PC"}

\* The machine s after the byte b went where outcome o puts it.
StrayStore(s, o, b) ==
    IF o = "PC" THEN [s EXCEPT !.cpu.PC = (@ \div 256) * 256 + b] ELSE s

\* WriteWord charging one cycle for its two stores.
WriteWordOneCycle(s, Value, Address) ==
    LET low == MemWrite(s.mem, Address, Value % 256)
        c == U32Dec(s.Cycles, 1)
    IN IF Address + 1 < MAX_MEM
       THEN {[s |-> [s EXCEPT !.mem = MemWrite(low, Address + 1, Value \div 256),
                              !.Cycles = c],
              ub |-> "defined"]}
       ELSE {[s |-> StrayStore([s EXCEPT !.mem = low, !.Cycles = c], o, Value \div 256),
              ub |-> o] : o \in UBOutcomes}

\* Mem::WriteWord on the machine s: the possible results of the two stores
\* and of Cycles -= 2, as [s, ub]; ub = "defined" when both stores are inside
\* the array.  The function checks no address.
WriteWord(s, Value, Address) ==
    LET low == MemWrite(s.mem, Address, Value % 256)
        c == U32Dec(s.Cycles, 2)
    IN IF Address + 1 < MAX_MEM
       THEN {[s |-> [s EXCEPT !.mem = MemWrite(low, Address + 1, Value \div 256),
                              !.Cycles = c],
              ub |-> "defined"]}
       ELSE {[s |-> StrayStore([s EXCEPT !.mem = low, !.Cycles = c], o, Value \div 256),
              ub |-> o] : o \in UBOutcomes}

----------------------------------------------------------------------------
(* struct CPU. *)

FlagNames == {"C", "Z", "I", "D", "B", "V", "N"}

\* Reset written as A = Y = 0: X keeps what it held.
ResetCPUKeepsX(c) ==
    [PC |-> ResetPC, SP |-> ResetSP,
     C |-> 0, Z |-> 0, I |-> 0, D |-> 0, B |-> 0, V |-> 0, N |-> 0,
     A |-> 0, X |-> c.X, Y |-> 0]

\* Reset adding the stack base to SP (SP += 0x0100) instead of assigning it.
ResetCPUAddsSP(c) ==
    [PC |-> ResetPC, SP |-> W16(c.SP + ResetSP),
     C |-> 0, Z |-> 0, I |-> 0, D |-> 0, B |-> 0, V |-> 0, N |-> 0,
     A |-> 0, X |-> 0, Y |-> 0]

\* CPU::Reset, the register part.
ResetCPU(c) ==
    [PC |-> ResetPC, SP |-> ResetSP,
     C |-> 0, Z |-> 0, I |-> 0, D |-> 0, B |-> 0, V |-> 0, N |-> 0,
     A |-> 0, X |-> 0, Y |-> 0]

\* A CPU object with every field 0.
ZeroCPU == [f \in FlagNames \cup {"PC", "SP", "A", "X", "Y"} |-> 0]

\* The machine a helper of the CPU works on.
Machine == [cpu |-> cpu, mem |-> mem, Cycles |-> Cycles]

\* FetchByte with PC in a wider type: PC++ goes on to 0x10000.
FetchByteNoWrap(s) ==
    [Data |-> MemRead(s.mem, s.cpu.PC),
     s |-> [s EXCEPT !.cpu.PC = @ + 1, !.Cycles = U32Dec(@, 1)]]

\* CPU::FetchByte: the byte at PC; PC++ (16 bits), Cycles--.
FetchByte(s) ==
    [Data |-> MemRead(s.mem, s.cpu.PC),
     s |-> [s EXCEPT !.cpu.PC = W16(@ + 1), !.Cycles = U32Dec(@, 1)]]

\* FetchWord taking the first byte as the high one.
FetchWordBigEndian(s) ==
    [Data |-> 256 * MemRead(s.mem, s.cpu.PC) + MemRead(s.mem, W16(s.cpu.PC + 1)),
     s |-> [s EXCEPT !.cpu.PC = W16(@ + 2), !.Cycles = U32Dec(@, 2)]]

\* CPU::FetchWord: low byte at PC, high byte at PC + 1; PC += 2, Cycles -= 2.
FetchWord(s) ==
    [Data |-> MemRead(s.mem, s.cpu.PC) + 256 * MemRead(s.mem, W16(s.cpu.PC + 1)),
     s |-> [s EXCEPT !.cpu.PC = W16(@ + 2), !.Cycles = U32Dec(@, 2)]]

\* CPU::ReadByte: throws when Address >= MAX_MEM, else the byte at Address; Cycles--.
ReadByte(s, Address) ==
    IF Address >= MAX_MEM
    THEN [fault |-> TRUE, Data |-> 0, s |-> s]
    ELSE [fault |-> FALSE, Data |-> MemRead(s.mem, Address),
          s |-> [s EXCEPT !.Cycles = U32Dec(@, 1)]]

\* LDASetStatus masking bit 6 (0b01000000) instead of bit 7.
LDASetStatusBit6(c) ==
    [c EXCEPT !.Z = IF c.A = 0 THEN 1 ELSE 0,
              !.N = IF (c.A \div 64) % 2 = 1 THEN 1 ELSE 0]

\* LDASetStatus writing the whole status byte: the other flags are cleared.
LDASetStatusWholeByte(c) ==
    [f \in DOMAIN c |->
        CASE f = "Z" -> IF c.A = 0 THEN 1 ELSE 0
          [] f = "N" -> IF (c.A \div 128) % 2 = 1 THEN 1 ELSE 0
          [] f \in {"C", "I", "D", "B", "V"} -> 0
          [] OTHER -> c[f]]

\* CPU::LDASetStatus: Z and N from A.
LDASetStatus(c) ==
    [c EXCEPT !.Z = IF c.A = 0 THEN 1 ELSE 0,
              !.N = IF (c.A \div 128) % 2 = 1 THEN 1 ELSE 0]

\* The sum kept in a wider type: no wrap inside the zero page.
ZeroPageXWide(zp, x) == zp + x

\* ZeroPageAddress += X on a std::uint8_t.
ZeroPageX(zp, x) == W8(zp + x)

----------------------------------------------------------------------------
(* The host's inputs. *)

\* The cells the host loads, each with the bytes it may put there.
ProgAddrs == {65532, 65533, 65534, 4, 5}

ProgBytes(a) ==
    CASE a = 65532 -> {INS_LDA_IM, INS_LDA_ZP, INS_LDA_ZPX, INS_JSR, 255}
      [] a = 65533 -> {5, 132, 1, 128, 255}
      [] a = 65534 -> {66, INS_LDA_IM}
      [] a = 4     -> {132, 1}
      [] a = 5     -> {127, INS_JSR}

\* The register fields the host sets, each with the values it may give.
RegNames == {"A", "X", "SP"}

RegValues(r) ==
    CASE r = "A"  -> {132}
      [] r = "X"  -> {1, 255}
      [] r = "SP" -> {65535}

\* What an object holds before anything was stored in it.
GarbageCPU ==
    {[PC |-> 4660, SP |-> 65535, C |-> 1, Z |-> 1, I |-> 1, D |-> 1, B |-> 1,
      V |-> 1, N |-> 1, A |-> 255, X |-> 255, Y |-> 255],
     [PC |-> 0, SP |-> 0, C |-> 0, Z |-> 1, I |-> 0, D |-> 1, B |-> 0,
      V |-> 1, N |-> 0, A |-> 7, X |-> 0, Y |-> 9]}

GarbageMem ==
    {EmptyMem, MemWrite(EmptyMem, 65535, 255),
     MemWrite(MemWrite(EmptyMem, 0, 170), 65532, 85)}

\* The history record: the operation, the state it started from, the outcome
\* of its out-of-array store (ub) and the address it gave ReadByte (ea).
NoAddr == MAX_MEM

\* fw is what the FetchWord call of the operation was given and gave back.
NoFetch == [Data |-> 0, before |-> 0, after |-> 0]

NoLast ==
    [op |-> "none", cpu |-> ResetCPU(ZeroCPU), mem |-> EmptyMem, Cycles |-> U32(0),
     ub |-> "defined", ea |-> NoAddr, fw |-> NoFetch]

Snapshot(op, ub, ea) ==
    [op |-> op, cpu |-> cpu, mem |-> mem, Cycles |-> Cycles, ub |-> ub, ea |-> ea,
     fw |-> NoFetch]

NoCall == [cpu |-> ResetCPU(ZeroCPU), mem |-> EmptyMem, steps |-> 0]

----------------------------------------------------------------------------
(* The state after construction: Mem mem; CPU cpu; hold indeterminate values. *)

Init ==
    /\ cpu \in GarbageCPU
    /\ mem \in GarbageMem
    /\ Cycles = U32(0)
    /\ pc = "uninit"
    /\ budget = 0
    /\ steps = 0
    /\ last = NoLast
    /\ call = NoCall
    /\ jsrs = 0

----------------------------------------------------------------------------
(* The operations. *)

\* cpu.Reset(mem), called between runs.
Reset ==
    /\ pc \in {"uninit", "setup", "idle"}
    /\ cpu' = ResetCPU(cpu)
    /\ mem' = Initialise(mem)
    /\ pc' = "setup"
    /\ steps' = 0
    /\ last' = Snapshot("Reset", "defined", NoAddr)
    /\ call' = NoCall
    /\ jsrs' = 0
    /\ UNCHANGED <<Cycles, budget>>

\* mem[a] = v by the host (Mem::operator[] returning a reference).
HostWrite ==
    /\ pc = "setup"
    /\ \E a \in ProgAddrs : \E v \in ProgBytes(a) :
          /\ a < MAX_MEM
          /\ mem' = MemWrite(mem, a, v)
    /\ last' = NoLast
    /\ UNCHANGED <<cpu, Cycles, pc, budget, steps, call, jsrs>>

\* cpu.<field> = v by the host (the fields of struct CPU are public).
HostSetRegister ==
    /\ pc = "setup"
    /\ \/ \E r \in RegNames : \E v \in RegValues(r) : cpu' = [cpu EXCEPT ![r] = v]
       \/ cpu' = [f \in DOMAIN cpu |-> IF f \in FlagNames THEN 1 ELSE cpu[f]]
    /\ last' = NoLast
    /\ UNCHANGED <<mem, Cycles, pc, budget, steps, call, jsrs>>

\* cpu.Execute(n, mem): the by-value parameter Cycles starts at n.
ExecuteCall ==
    /\ pc \in {"setup", "idle"}
    /\ steps < MaxSteps
    /\ \E n \in 1 .. MaxBudget :
          /\ Cycles' = U32(n)
          /\ budget' = n
    /\ pc' = "running"
    /\ last' = NoLast
    /\ call' = [cpu |-> cpu, mem |-> mem, steps |-> steps]
    /\ UNCHANGED <<cpu, mem, steps, jsrs>>

\* The while test fails: Execute returns.
ExecuteReturn ==
    /\ pc = "running"
    /\ ~U32Positive(Cycles)
    /\ pc' = "idle"
    /\ last' = Snapshot("Return", "defined", NoAddr)
    /\ UNCHANGED <<cpu, mem, Cycles, budget, steps, call, jsrs>>

\* The guard of one loop iteration, and the opcode it fetches.
Iterating == pc = "running" /\ U32Positive(Cycles) /\ steps < MaxSteps

Fetched == FetchByte(Machine)

\* The machine s becomes the state at the next opcode boundary.
Commit(s, op, ea) ==
    /\ cpu' = s.cpu
    /\ mem' = s.mem
    /\ Cycles' = s.Cycles
    /\ pc' = "running"
    /\ steps' = steps + 1
    /\ last' = Snapshot(op, "defined", ea)
    /\ UNCHANGED <<budget, call, jsrs>>

\* ReadByte threw: the exception leaves Execute.
Throw(s, op, ea) ==
    /\ cpu' = s.cpu
    /\ mem' = s.mem
    /\ Cycles' = s.Cycles
    /\ pc' = "fault"
    /\ steps' = steps + 1
    /\ last' = Snapshot(op, "defined", ea)
    /\ UNCHANGED <<budget, call, jsrs>>

\* case INS_LDA_IM
StepLDA_IM ==
    /\ Iterating
    /\ Fetched.Data = INS_LDA_IM
    /\ LET f == FetchByte(Fetched.s)
           s == [f.s EXCEPT !.cpu.A = f.Data]
       IN Commit([s EXCEPT !.cpu = LDASetStatus(s.cpu)], "LDA_IM", NoAddr)

\* case INS_LDA_ZP
StepLDA_ZP ==
    /\ Iterating
    /\ Fetched.Data = INS_LDA_ZP
    /\ LET f == FetchByte(Fetched.s)
           r == ReadByte(f.s, f.Data)
           s == [r.s EXCEPT !.cpu.A = r.Data]
       IN IF r.fault THEN Throw(r.s, "LDA_ZP", f.Data)
          ELSE Commit([s EXCEPT !.cpu = LDASetStatus(s.cpu)], "LDA_ZP", f.Data)

\* case INS_LDA_ZPX
StepLDA_ZPX ==
    /\ Iterating
    /\ Fetched.Data = INS_LDA_ZPX
    /\ LET f == FetchByte(Fetched.s)
           ZeroPageAddress == ZeroPageX(f.Data, f.s.cpu.X)
           r == ReadByte([f.s EXCEPT !.Cycles = U32Dec(@, 1)], ZeroPageAddress)
           s == [r.s EXCEPT !.cpu.A = r.Data]
       IN IF r.fault THEN Throw(r.s, "LDA_ZPX", ZeroPageAddress)
          ELSE Commit([s EXCEPT !.cpu = LDASetStatus(s.cpu)], "LDA_ZPX", ZeroPageAddress)

\* JSR pushing the advanced PC itself instead of PC - 1.
StepJSRPushesPC ==
    /\ Iterating
    /\ Fetched.Data = INS_JSR
    /\ LET f == FetchWord(Fetched.s)
           SubAddr == f.Data
           Value == f.s.cpu.PC
       IN \E w \in WriteWord(f.s, Value, f.s.cpu.SP) :
             /\ mem' = w.s.mem
             /\ last' = [Snapshot("JSR", w.ub, NoAddr) EXCEPT
                            !.fw = [Data |-> f.Data, before |-> Fetched.s, after |-> f.s]]
             /\ steps' = steps + 1
             /\ UNCHANGED <<budget, call>>
             /\ IF w.ub = "crash"
                THEN /\ pc' = "crashed"
                     /\ cpu' = w.s.cpu
                     /\ Cycles' = w.s.Cycles
                     /\ jsrs' = jsrs
                ELSE /\ pc' = "running"
                     /\ jsrs' = jsrs + 1
                     /\ Cycles' = U32Dec(w.s.Cycles, 1)
                     /\ cpu' = [w.s.cpu EXCEPT !.PC = SubAddr, !.SP = W16(@ + 1)]

\* case INS_JSR
StepJSR ==
    /\ Iterating
    /\ Fetched.Data = INS_JSR
    /\ LET f == FetchWord(Fetched.s)
           SubAddr == f.Data
           Value == W16(f.s.cpu.PC - 1)
       IN \E w \in WriteWord(f.s, Value, f.s.cpu.SP) :
             /\ mem' = w.s.mem
             /\ last' = [Snapshot("JSR", w.ub, NoAddr) EXCEPT
                            !.fw = [Data |-> f.Data, before |-> Fetched.s, after |-> f.s]]
             /\ steps' = steps + 1
             /\ UNCHANGED <<budget, call>>
             /\ IF w.ub = "crash"
                THEN /\ pc' = "crashed"
                     /\ cpu' = w.s.cpu
                     /\ Cycles' = w.s.Cycles
                     /\ jsrs' = jsrs
                ELSE /\ pc' = "running"
                     /\ jsrs' = jsrs + 1
                     /\ Cycles' = U32Dec(w.s.Cycles, 1)
                     /\ cpu' = [w.s.cpu EXCEPT !.PC = SubAddr, !.SP = W16(@ + 1)]

\* A default case that ends the run on an opcode it does not know.
StepUnknownHalts ==
    /\ Iterating
    /\ Fetched.Data \notin {INS_LDA_IM, INS_LDA_ZP, INS_LDA_ZPX, INS_JSR}
    /\ cpu' = Fetched.s.cpu
    /\ Cycles' = Fetched.s.Cycles
    /\ pc' = "idle"
    /\ steps' = steps + 1
    /\ last' = Snapshot("Unknown", "defined", NoAddr)
    /\ UNCHANGED <<mem, budget, call, jsrs>>

\* default: the opcode is reported on std::cout and the loop goes on.
StepUnknown ==
    /\ Iterating
    /\ Fetched.Data \notin {INS_LDA_IM, INS_LDA_ZP, INS_LDA_ZPX, INS_JSR}
    /\ Commit(Fetched.s, "Unknown", NoAddr)

Next ==
    \/ Reset
    \/ HostWrite
    \/ HostSetRegister
    \/ ExecuteCall
    \/ ExecuteReturn
    \/ StepLDA_IM
    \/ StepLDA_ZP
    \/ StepLDA_ZPX
    \/ StepJSR
    \/ StepUnknown

Spec == Init /\ [][Next]_vars

----------------------------------------------------------------------------
(* The program as main drives it: after Reset the host stores a program    *)
(* into memory, and nothing into the registers, and calls Execute.         *)

\* The budget main gives Execute.
DemoBudget == 9

\* The cells main loads and nearby ones, each with the bytes put there:
\* the program of main (JSR $4242 at 0xFFFC, LDA #$84 at 0x4242), other
\* opcodes in its place, and code at the top of memory that runs on into
\* address 0.
LoadAddrs == {65532, 65533, 65534, 65535, 0, 16962, 16963}

LoadBytes(a) ==
    CASE a = 65532 -> {INS_JSR, INS_LDA_IM, INS_LDA_ZP, INS_LDA_ZPX, 255}
      [] a = 65533 -> {66, 255}
      [] a = 65534 -> {66, 255, INS_JSR, INS_LDA_ZPX}
      [] a = 65535 -> {INS_LDA_IM}
      [] a = 0     -> {132}
      [] a = 16962 -> {INS_LDA_IM, INS_JSR}
      [] a = 16963 -> {132}

\* mem[a] = v in main.
HostLoad ==
    /\ pc = "setup"
    /\ \E a \in LoadAddrs : \E v \in LoadBytes(a) :
          /\ a < MAX_MEM
          /\ mem' = MemWrite(mem, a, v)
    /\ last' = NoLast
    /\ UNCHANGED <<cpu, Cycles, pc, budget, steps, call, jsrs>>

\* cpu.Execute(n, mem) in main, with the budget of main or a small one.
ExecuteMain ==
    /\ pc \in {"setup", "idle"}
    /\ steps < MaxSteps
    /\ \E n \in (1 .. MaxBudget) \cup {DemoBudget} :
          /\ Cycles' = U32(n)
          /\ budget' = n
    /\ pc' = "running"
    /\ last' = NoLast
    /\ call' = [cpu |-> cpu, mem |-> mem, steps |-> steps]
    /\ UNCHANGED <<cpu, mem, steps, jsrs>>

NextMain ==
    \/ Reset
    \/ HostLoad
    \/ ExecuteMain
    \/ ExecuteReturn
    \/ StepLDA_IM
    \/ StepLDA_ZP
    \/ StepLDA_ZPX
    \/ StepJSR
    \/ StepUnknown

SpecMain == Init /\ [][NextMain]_vars

----------------------------------------------------------------------------
(* What the properties below read from the history record. *)

\* The last operation was one loop iteration of Execute, of the given case.
Stepped(op) == last.op = op

LDAOps == {"LDA_IM", "LDA_ZP", "LDA_ZPX"}

\* The cycles the current call has consumed: budget - Cycles on 32 bits.
Consumed == U32Sub(U32(budget), Cycles)

\* The byte after the opcode of the last instruction, in the memory it ran on.
Operand == MemRead(last.mem, W16(last.cpu.PC + 1))

\* The byte after that one.
Operand2 == MemRead(last.mem, W16(last.cpu.PC + 2))

\* The cycles the last iteration took: last.Cycles - Cycles on 32 bits.
StepCost == U32Sub(last.Cycles, Cycles)

----------------------------------------------------------------------------
(* C1: Execute returns at the first opcode boundary at which the cycles    *)
(* consumed are at or above the budget N: while the loop is about to fetch *)
(* another opcode fewer than N cycles are consumed, and when it has        *)
(* returned between N and N + 5 are.                                       *)
C1_StopsAtBudget ==
    /\ (pc = "running" /\ U32Positive(Cycles)) =>
          (Consumed.hi = 0 /\ Consumed.lo < budget)
    /\ Stepped("Return") =>
          (Consumed.hi = 0 /\ Consumed.lo >= budget /\ Consumed.lo <= budget + 5)

(* C2: Execute terminates.  Stated on finite runs by the measure that makes *)
(* the loop end: every iteration that leaves the loop running leaves the    *)
(* cycle counter strictly smaller than it found it.                         *)
C2_CounterDecreases ==
    [][(pc = "running" /\ pc' = "running") =>
          \/ Cycles'.hi < Cycles.hi
          \/ (Cycles'.hi = Cycles.hi /\ Cycles'.lo < Cycles.lo)]_vars

(* C3: no cell at address 65536 or above is read or written, and a word    *)
(* write at 0xFFFF (JSR with SP = 0xFFFF) fails with OutOfRange, ends the  *)
(* run and leaves memory as it was.                                        *)
C3_WordWriteOutOfRange ==
    /\ last.ub = "defined"
    /\ (Stepped("JSR") /\ last.cpu.SP = MAX_MEM - 1) =>
          (pc = "fault" /\ mem = last.mem)

(* C4: after an LDA, A is the operand byte (the byte after the opcode for  *)
(* Immediate, the zero-page cell that byte addresses for Zero Page, the    *)
(* cell at (byte + X) mod 256 for Zero Page,X), Z = 1 exactly when A = 0   *)
(* and N = 1 exactly when bit 7 of A is set.                               *)
LDAOperand ==
    CASE last.op = "LDA_IM"  -> Operand
      [] last.op = "LDA_ZP"  -> MemRead(last.mem, Operand)
      [] last.op = "LDA_ZPX" -> MemRead(last.mem, (Operand + last.cpu.X) % 256)

C4_LDALoadsAndFlags ==
    last.op \in LDAOps =>
        /\ pc = "running"
        /\ cpu.A = LDAOperand
        /\ (cpu.Z = 1) <=> (cpu.A = 0)
        /\ (cpu.N = 1) <=> (cpu.A >= 128)
        /\ (LDAOperand = 0 => (cpu.Z = 1 /\ cpu.N = 0))
        /\ (LDAOperand = 132 => (cpu.Z = 0 /\ cpu.N = 1))
        /\ (LDAOperand = 1 => (cpu.Z = 0 /\ cpu.N = 0))

\* An LDA of each mode ran, on operands 0x00, 0x84 and 0x01, over an A that
\* differed from the operand and over Z and N set.
C4_Witness ==
    /\ Stepped("LDA_ZPX")
    /\ LDAOperand = 132
    /\ last.cpu.A # 132
    /\ last.cpu.Z = 1
    /\ cpu.N = 1

(* C5: an instruction that runs to the next opcode boundary takes 2 cycles *)
(* (LDA Immediate), 3 (LDA Zero Page), 4 (LDA Zero Page,X) or 6 (JSR),     *)
(* whatever its operands and the registers.                                *)
OpcodeCost ==
    CASE last.op = "LDA_IM"  -> 2
      [] last.op = "LDA_ZP"  -> 3
      [] last.op = "LDA_ZPX" -> 4
      [] last.op = "JSR"     -> 6

C5_OpcodeCost ==
    (last.op \in LDAOps \cup {"JSR"} /\ pc = "running") => StepCost = U32(OpcodeCost)

\* A JSR took its 6 cycles from a counter of 1: the counter wrapped.
C5_Witness ==
    /\ Stepped("JSR")
    /\ pc = "running"
    /\ last.Cycles = U32(1)
    /\ last.cpu.X = 255

(* C6: JSR with its opcode at P and the stack pointer S: the target T is   *)
(* the little-endian word at P + 1 and P + 2, the word P + 2 is stored low *)
(* byte at memory[S] and high byte at memory[S + 1], PC becomes T and SP   *)
(* becomes S + 1.                                                          *)
JSRTarget == Operand + 256 * Operand2

JSRReturn == W16(last.cpu.PC + 2)

C6_JSREffect ==
    Stepped("JSR") =>
        /\ pc = "running"
        /\ cpu.PC = JSRTarget
        /\ cpu.SP = W16(last.cpu.SP + 1)
        /\ last.cpu.SP + 1 \in Addr
        /\ MemRead(mem, last.cpu.SP) = JSRReturn % 256
        /\ MemRead(mem, last.cpu.SP + 1) = JSRReturn \div 256

\* The same, where both bytes of the stack word are cells of memory.
JSREffectInsideMemory ==
    (Stepped("JSR") /\ last.cpu.SP + 1 \in Addr) =>
        /\ pc = "running"
        /\ cpu.PC = JSRTarget
        /\ cpu.SP = last.cpu.SP + 1
        /\ MemRead(mem, last.cpu.SP) = JSRReturn % 256
        /\ MemRead(mem, last.cpu.SP + 1) = JSRReturn \div 256

(* C7: an opcode byte other than 0xA9, 0xA5, 0xB5 and 0x20 neither stops   *)
(* Execute nor faults: the iteration takes 1 cycle, advances PC by 1,      *)
(* leaves A, X, Y, SP, the flags and memory as they were, and the loop     *)
(* goes on.                                                                *)
C7_UnknownOpcode ==
    Stepped("Unknown") =>
        /\ MemRead(last.mem, last.cpu.PC) \notin {169, 165, 181, 32}
        /\ pc = "running"
        /\ StepCost = U32(1)
        /\ cpu = [last.cpu EXCEPT !.PC = W16(@ + 1)]
        /\ mem = last.mem

\* The byte 0xFF was fetched as an opcode with budget left after it.
C7_Witness ==
    /\ Stepped("Unknown")
    /\ MemRead(last.mem, last.cpu.PC) = 255
    /\ U32Positive(Cycles)
    /\ last.cpu.A = 132

(* C8: LDA Zero Page,X reads the cell at (operand + X) mod 256, an address *)
(* of the zero page; with X = 0xFF and operand 0x05 it loads memory[0x04]. *)
C8_ZeroPageXWraps ==
    Stepped("LDA_ZPX") =>
        /\ last.ea = (Operand + last.cpu.X) % 256
        /\ last.ea \in 0 .. 255
        /\ cpu.A = MemRead(last.mem, last.ea)
        /\ (last.cpu.X = 255 /\ Operand = 5) =>
              (last.ea = 4 /\ cpu.A = MemRead(last.mem, 4))

\* X = 0xFF, operand 0x05, and memory[0x04] differs from memory[0x104].
C8_Witness ==
    /\ Stepped("LDA_ZPX")
    /\ last.cpu.X = 255
    /\ Operand = 5
    /\ MemRead(last.mem, 4) = 132
    /\ MemRead(last.mem, 260) # 132
    /\ cpu.A = 132

(* C9: an LDA leaves C, I, D, B, V, X, Y, SP and memory as they were; a    *)
(* JSR leaves the seven flags and A, X, Y as they were and changes no cell *)
(* other than memory[SP] and memory[SP + 1].                               *)
C9_Frame ==
    /\ last.op \in LDAOps =>
          /\ \A f \in {"C", "I", "D", "B", "V", "X", "Y", "SP"} : cpu[f] = last.cpu[f]
          /\ mem = last.mem
    /\ Stepped("JSR") =>
          /\ \A f \in FlagNames \cup {"A", "X", "Y"} : cpu[f] = last.cpu[f]
          /\ \A a \in (DOMAIN mem \cup DOMAIN last.mem) \ {last.cpu.SP, last.cpu.SP + 1} :
                MemRead(mem, a) = MemRead(last.mem, a)

\* An LDA ran with the other flags set, X and SP changed by the host and
\* memory loaded, and changed A, Z and N.
C9_Witness ==
    /\ Stepped("LDA_ZP")
    /\ \A f \in {"C", "I", "D", "B", "V"} : last.cpu[f] = 1
    /\ last.cpu.X = 255
    /\ last.cpu.SP = 65535
    /\ last.cpu.Z = 1
    /\ cpu.Z = 0
    /\ cpu.A # last.cpu.A

(* C10: after Reset, PC = 0xFFFC, SP = 0x0100, A = X = Y = 0, the seven    *)
(* flags are 0 and every cell of memory is 0 (a cell that is not stored    *)
(* reads 0, so the cells to look at are the stored ones and those that     *)
(* held a byte before).                                                    *)
C10_ResetState ==
    Stepped("Reset") =>
        /\ cpu.PC = 65532
        /\ cpu.SP = 256
        /\ cpu.A = 0 /\ cpu.X = 0 /\ cpu.Y = 0
        /\ \A f \in FlagNames : cpu[f] = 0
        /\ DOMAIN cpu = FlagNames \cup {"PC", "SP", "A", "X", "Y"}
        /\ DOMAIN mem \subseteq Addr
        /\ \A a \in DOMAIN mem \cup DOMAIN last.mem \cup {0, 65535} : MemRead(mem, a) = 0

\* Reset ran after a run that had loaded A and moved PC, with every flag
\* set, SP moved by the host and a program in memory.
C10_Witness ==
    /\ Stepped("Reset")
    /\ last.cpu.A = 132
    /\ last.cpu.PC = 65534
    /\ \A f \in FlagNames \ {"Z"} : last.cpu[f] = 1
    /\ last.cpu.X = 255
    /\ last.cpu.SP = 65535
    /\ MemRead(last.mem, 65532) = 169
    /\ MemRead(last.mem, 4) # 0

(* C11: Execute never stops inside an instruction.  An instruction fetched *)
(* with fewer cycles left than it costs is carried out in full before the  *)
(* loop test is made again: an LDA has fetched its operand, loaded A and   *)
(* set Z and N; a JSR has set PC to its target, advanced SP and stored the *)
(* two bytes of the stack word.                                            *)
ShortOfBudget ==
    /\ last.op \in LDAOps \cup {"JSR"}
    /\ last.Cycles.hi = 0
    /\ last.Cycles.lo < OpcodeCost

LDAInFull ==
    /\ cpu.PC = W16(last.cpu.PC + 2)
    /\ cpu.A = LDAOperand
    /\ (cpu.Z = 1) <=> (LDAOperand = 0)
    /\ (cpu.N = 1) <=> (LDAOperand >= 128)

JSRInFull ==
    /\ cpu.PC = JSRTarget
    /\ cpu.SP = W16(last.cpu.SP + 1)
    /\ MemRead(mem, last.cpu.SP) = JSRReturn % 256
    /\ last.cpu.SP + 1 \in Addr
    /\ MemRead(mem, last.cpu.SP + 1) = JSRReturn \div 256

C11_NoMidInstructionHalt ==
    ShortOfBudget =>
        /\ pc = "running"
        /\ StepCost = U32(OpcodeCost)
        /\ last.op \in LDAOps => LDAInFull
        /\ last.op = "JSR" => JSRInFull

\* The same, for every instruction whose stores are all cells of memory.
NoMidInstructionHaltInsideMemory ==
    (ShortOfBudget /\ (last.op = "JSR" => last.cpu.SP + 1 \in Addr)) =>
        /\ pc = "running"
        /\ StepCost = U32(OpcodeCost)
        /\ last.op \in LDAOps => LDAInFull
        /\ last.op = "JSR" => JSRInFull

(* C12: Reset is idempotent and always succeeds: a Reset ends outside      *)
(* Execute with no fault, and a Reset that follows a Reset leaves the      *)
(* registers, the flags and memory exactly as the first one left them.     *)
C12_ResetIdempotent ==
    [][last'.op = "Reset" =>
          /\ pc' = "setup"
          /\ last.op = "Reset" => (cpu' = cpu /\ mem' = mem)]_vars

\* A Reset ran on the state a Reset leaves.
C12_Witness ==
    /\ Stepped("Reset")
    /\ pc = "setup"
    /\ last.cpu = ResetCPU(ZeroCPU)
    /\ last.mem = EmptyMem
    /\ cpu = last.cpu
    /\ mem = last.mem

(* C13: FetchWord returns memory[PC] + 256 * memory[PC + 1] (PC + 1 on 16  *)
(* bits), adds 2 to PC, takes 2 cycles and changes no other register, flag *)
(* or memory cell.  JSR calls it right after the opcode fetch and jumps to *)
(* the word it returns.                                                    *)
C13_FetchWord ==
    Stepped("JSR") =>
        LET b == last.fw.before
            a == last.fw.after
        IN /\ b.cpu.PC = W16(last.cpu.PC + 1)
           /\ b.mem = last.mem
           /\ last.fw.Data = MemRead(b.mem, b.cpu.PC) + 256 * MemRead(b.mem, W16(b.cpu.PC + 1))
           /\ a.cpu = [b.cpu EXCEPT !.PC = W16(@ + 2)]
           /\ U32Sub(b.Cycles, a.Cycles) = U32(2)
           /\ a.mem = b.mem
           /\ pc = "running" => cpu.PC = last.fw.Data

\* FetchWord ran with PC = 0xFFFF: low byte from 0xFFFF, high byte from 0.
C13_Witness ==
    /\ Stepped("JSR")
    /\ last.fw.before.cpu.PC = 65535
    /\ last.fw.Data = 169 + 256 * 132
    /\ last.fw.after.cpu.PC = 1
    /\ last.fw.before.cpu.A = 0

(* C14: the run of main.  From the reset CPU and the memory main loads     *)
(* (0xFFFC: 0x20 0x42 0x42, 0x4242: 0xA9 0x84), Execute with budget 9      *)
(* makes exactly three iterations, JSR, LDA Immediate and the unknown      *)
(* opcode 0x00, and returns with A = 0x84, Z = 0, N = 1, PC = 0x4245,      *)
(* SP = 0x0101, memory[0x0100] = 0xFE, memory[0x0101] = 0xFF and 9 cycles  *)
(* consumed.                                                               *)
DemoImage ==
    MemWrite(MemWrite(MemWrite(MemWrite(MemWrite(EmptyMem,
        65532, 32), 65533, 66), 65534, 66), 16962, 169), 16963, 132)

\* The current call of Execute is the one main makes.
DemoRun ==
    /\ pc \in {"running", "idle", "crashed", "fault"}
    /\ budget = 9
    /\ call.steps = 0
    /\ call.mem = DemoImage
    /\ call.cpu.PC = 65532
    /\ call.cpu.SP = 256

\* The iterations the current call has made.
Iterations == steps - call.steps

C14_DemoRun ==
    DemoRun =>
        /\ pc \in {"running", "idle"}
        /\ Iterations <= 3
        /\ (pc = "running" /\ Iterations = 1) => (last.op = "JSR" /\ Cycles = U32(3))
        /\ (pc = "running" /\ Iterations = 2) => (last.op = "LDA_IM" /\ Cycles = U32(1))
        /\ (pc = "running" /\ Iterations = 3) =>
              (last.op = "Unknown" /\ MemRead(last.mem, last.cpu.PC) = 0 /\ Cycles = U32(0))
        /\ pc = "idle" =>
              /\ Iterations = 3
              /\ Consumed = U32(9)
              /\ cpu.A = 132 /\ cpu.Z = 0 /\ cpu.N = 1
              /\ cpu.PC = 16965
              /\ cpu.SP = 257
              /\ MemRead(mem, 256) = 254
              /\ MemRead(mem, 257) = 255

\* The run of main has returned.
C14_Witness ==
    /\ DemoRun
    /\ pc = "idle"
    /\ Stepped("Return")
    /\ cpu.A = 132
    /\ cpu.PC = 16965

(* C15: with the host storing into memory only, in every state from the    *)
(* first Reset on, over any number of calls of Execute, X = 0, Y = 0 and   *)
(* C = I = D = B = V = 0; so LDA Zero Page,X reads the address LDA Zero    *)
(* Page reads for the same operand, the operand byte itself.               *)
C15_IndexAndFlagsStayZero ==
    pc # "uninit" =>
        /\ cpu.X = 0
        /\ cpu.Y = 0
        /\ \A f \in {"C", "I", "D", "B", "V"} : cpu[f] = 0
        /\ last.op \in {"LDA_ZP", "LDA_ZPX"} =>
              (last.ea = Operand /\ cpu.A = MemRead(last.mem, Operand))

\* In a second call of Execute, after an LDA Immediate had set A and N, an
\* LDA Zero Page,X loaded the cell its operand byte names.
C15_Witness ==
    /\ call.steps = 1
    /\ Stepped("LDA_ZPX")
    /\ last.cpu.A = 255
    /\ last.cpu.N = 1
    /\ Operand = 0
    /\ cpu.A = 132
    /\ cpu.X = 0

\* A JSR writes the bytes of its return address at SP and SP + 1, both cells
\* of memory, and moves SP up by 1; no other instruction moves SP.
JSRStackWord ==
    /\ Stepped("JSR") =>
          /\ pc = "running"
          /\ last.cpu.SP + 1 \in Addr
          /\ MemRead(mem, last.cpu.SP) = JSRReturn % 256
          /\ MemRead(mem, last.cpu.SP + 1) = JSRReturn \div 256
          /\ cpu.SP = W16(last.cpu.SP + 1)
    /\ (last.op \in LDAOps \cup {"Unknown", "Return"}) => cpu.SP = last.cpu.SP

\* A JSR that follows a JSR directly puts its low byte over the high byte of
\* the first one's word: of that word only the low byte, at the first SP,
\* is left, followed by the two bytes of the second word.
JSROverlap ==
    (last.op = "JSR" /\ last'.op = "JSR" /\ last' # last) =>
        LET SP0 == last.cpu.SP
            Second == W16(last'.cpu.PC + 2)
        IN /\ last'.cpu.SP = SP0 + 1
           /\ SP0 + 2 \in Addr
           /\ MemRead(mem, SP0 + 1) = JSRReturn \div 256
           /\ MemRead(mem', SP0) = JSRReturn % 256
           /\ MemRead(mem', SP0 + 1) = Second % 256
           /\ MemRead(mem', SP0 + 2) = Second \div 256

(* C16: the stack words of consecutive JSRs overlap: each JSR writes two   *)
(* bytes, at SP and SP + 1, and moves SP up by 1 only, so a JSR directly   *)
(* after a JSR overwrites the high byte of the first return address with   *)
(* its own low byte and only the low byte of the first, at the first SP,   *)
(* is left in memory; no other instruction moves SP.                       *)
C16_StackWordsOverlap == [](JSRStackWord) /\ [][JSROverlap]_vars

\* The same, where the words written are cells of memory.
StackWordsOverlapInsideMemory ==
    /\ []((last.op = "JSR" /\ last.cpu.SP + 1 \in Addr) => JSRStackWord)
    /\ []((last.op # "JSR") => JSRStackWord)
    /\ [][last.cpu.SP + 2 \in Addr => JSROverlap]_vars

\* With the host storing into memory only, SP is 0x0100 plus the JSRs
\* completed since Reset, on 16 bits.
SPCountsJSRs == pc \notin {"uninit"} => cpu.SP = W16(ResetSP + jsrs)

\* Two JSRs in a row from the reset stack pointer: 0x0100 holds the low
\* byte of the first return address, 0x0101 and 0x0102 the second.
TwoJSRsFromReset ==
    /\ jsrs = 2
    /\ Stepped("JSR")
    /\ last.cpu.SP = ResetSP + 1
    /\ cpu.SP = ResetSP + 2
    /\ MemRead(mem, 256) = 254
    /\ MemRead(mem, 257) = 68
    /\ MemRead(mem, 258) = 66

(* C17: no read of Execute faults: PC is a 16-bit value in every state and *)
(* goes from 0xFFFF to 0x0000 on increment, so the fetch after one at      *)
(* 0xFFFF is at address 0 and a FetchWord at PC = 0xFFFF takes its high    *)
(* byte from address 0; ReadByte gets an 8-bit address, so its check       *)
(* Address >= 65536 is never true and the exception is never raised.       *)
C17_NoReadFaults ==
    /\ pc # "fault"
    /\ cpu.PC \in Addr
    /\ last.op \in {"LDA_ZP", "LDA_ZPX"} => last.ea \in 0..255
    /\ (last.op \in {"Unknown"} \cup LDAOps /\ last.cpu.PC = 65535) =>
          cpu.PC = (IF last.op = "Unknown" THEN 0 ELSE 1)
    /\ (Stepped("LDA_IM") /\ last.cpu.PC = 65535) => cpu.A = MemRead(last.mem, 0)
    /\ (Stepped("LDA_IM") /\ last.cpu.PC = 65534) =>
          (cpu.A = MemRead(last.mem, 65535) /\ cpu.PC = 0)
    /\ (Stepped("JSR") /\ last.cpu.PC = 65534) =>
          /\ last.fw.before.cpu.PC = 65535
          /\ last.fw.Data = MemRead(last.mem, 65535) + 256 * MemRead(last.mem, 0)
          /\ last.fw.after.cpu.PC = 1

\* A JSR at 0xFFFE took its target 0x84A9 from the bytes at 0xFFFF and 0.
C17_Witness ==
    /\ Stepped("JSR")
    /\ pc = "running"
    /\ last.cpu.PC = 65534
    /\ MemRead(last.mem, 65535) = 169
    /\ MemRead(last.mem, 0) = 132
    /\ cpu.PC = 33961

\* An LDA Immediate at 0xFFFF took its operand from address 0.
FetchWrapsToZero ==
    /\ Stepped("LDA_IM")
    /\ last.cpu.PC = 65535
    /\ cpu.A = 132
    /\ cpu.PC = 1

====
